---- MODULE Spec2Model ----
(***************************************************************************)
(* tools/upgrade_tool.py: the godot-cpp upgrade pipeline.                   *)
(*                                                                         *)
(* Strings are sequences of symbols.  A symbol is one character, or one of  *)
(* the literals the script itself names ("--min", "godot-cpp",              *)
(* ".gdextension", "4.6", ...), which no concatenation of the other         *)
(* symbols used here can produce.  A path is a sequence of names, a name    *)
(* is a string.  The filesystem maps paths to nodes.                        *)
(***************************************************************************)
EXTENDS Integers, Sequences, FiniteSets, TLC

VARIABLES
    args,         \* sys.argv[1:]
    fs,           \* the filesystem: path -> node
    fs0,          \* the filesystem when the process started (history)
    pc,           \* position in main()
    plugin_root,  \* parse_args' first result
    compat_min,   \* parse_args' second result
    no_clean,     \* parse_args' third result
    plugin_name,  \* update_dont_touch's return value
    exit_code,    \* -1 while running, else the process's exit status
    trace,        \* calls, external commands and file operations, in order
    failed,       \* external commands that returned non-zero (environment)
    oserror,      \* an external command could not be started (environment)
    interrupted,  \* the user interrupted the process (environment)
    warned        \* warnings printed

vars == <<args, fs, fs0, pc, plugin_root, compat_min, no_clean, plugin_name,
          exit_code, trace, failed, oserror, interrupted, warned>>

----------------------------------------------------------------------------
(* Bounds *)

MaxArgs == 2
MaxArgv == 3
MaxMarkerLen == 4

----------------------------------------------------------------------------
(* Strings *)

RECURSIVE SeqsUpTo(_, _)
SeqsUpTo(S, n) ==
    IF n = 0 THEN {<<>>}
    ELSE LET shorter == SeqsUpTo(S, n - 1)
         IN  shorter \cup {Append(s, x) : s \in {t \in shorter : Len(t) = n - 1}, x \in S}

Range(s) == {s[i] : i \in 1..Len(s)}

Whitespace == {" ", "\n", "\t"}

\* str.strip(): leading and trailing whitespace removed
RECURSIVE lstrip(_)
lstrip(s) == IF s # <<>> /\ Head(s) \in Whitespace THEN lstrip(Tail(s)) ELSE s

RECURSIVE rstrip(_)
rstrip(s) ==
    IF s # <<>> /\ s[Len(s)] \in Whitespace THEN rstrip(SubSeq(s, 1, Len(s) - 1)) ELSE s

strip(s) == rstrip(lstrip(s))

\* str.lower(), on the symbols used here
lower_sym(c) == IF c = "A" THEN "a" ELSE c

lower(s) == [i \in 1..Len(s) |-> lower_sym(s[i])]

\* file.readlines(): the lines, each with its terminator kept
RECURSIVE readlines_from(_, _, _)
readlines_from(s, cur, acc) ==
    IF s = <<>> THEN (IF cur = <<>> THEN acc ELSE Append(acc, cur))
    ELSE IF Head(s) = "\n" THEN readlines_from(Tail(s), <<>>, Append(acc, Append(cur, "\n")))
    ELSE readlines_from(Tail(s), Append(cur, Head(s)), acc)

readlines(s) == readlines_from(s, <<>>, <<>>)

\* file.writelines(): the lines concatenated
RECURSIVE writelines(_)
writelines(lines) == IF lines = <<>> THEN <<>> ELSE Head(lines) \o writelines(Tail(lines))

----------------------------------------------------------------------------
(* Options and results *)

None == [ok |-> FALSE, v |-> <<>>]
Some(x) == [ok |-> TRUE, v |-> x]

\* Python truthiness of an optional string: neither None nor ""
truthy(r) == r.ok /\ r.v # <<>>

----------------------------------------------------------------------------
(* Paths and the filesystem *)

DirNode == [dir |-> TRUE, data |-> <<>>]
FileNode(d) == [dir |-> FALSE, data |-> d]

join(p, name) == Append(p, name)

isdir(f, p) == p \in DOMAIN f /\ f[p].dir
isfile(f, p) == p \in DOMAIN f /\ ~f[p].dir

\* the process's working directory and the parent of the script's directory
Cwd == << <<"w">> >>
ScriptParent == << <<"s">> >>

\* os.path.abspath of a relative one-name path
abspath(tok) == join(Cwd, tok)

GodotCpp == <<"godot-cpp">>
GitMarker == <<".git">>
GitmodulesName == <<".gitmodules">>
DontTouchName == <<"dont_touch.txt">>
TestProject == <<"test_project">>
GdExt == ".gdextension"

gdextension_name(name) == Append(name, GdExt)

\* fname.endswith(".gdextension")
endswith_gdextension(name) == name # <<>> /\ name[Len(name)] = GdExt

\* "godot-cpp" in <string>
contains_godot_cpp(s) == \E i \in 1..Len(s) : s[i] = "godot-cpp"

\* "godot-cpp" in root, for a directory path joined with separators
path_contains_godot_cpp(p) == \E i \in 1..Len(p) : contains_godot_cpp(p[i])

IsPrefix(p, q) == Len(p) <= Len(q) /\ SubSeq(q, 1, Len(p)) = p

\* a filesystem from a set of <<path, node>> pairs with distinct paths
MkFs(nodes) ==
    [p \in {n[1] : n \in nodes} |-> (CHOOSE n \in nodes : n[1] = p)[2]]

write_file(f, p, data) ==
    [q \in DOMAIN f \cup {p} |-> IF q = p THEN FileNode(data) ELSE f[q]]


----------------------------------------------------------------------------
(* parse_args *)

MinTok == <<"--min">>
NoCleanTok == <<"--no-clean">>
DefaultCompat == <<"4.6">>

ParseStart == [compat_min |-> DefaultCompat, no_clean |-> FALSE, positional |-> <<>>]

\* the guard of the --min branch: the token is --min and another token follows it
is_min_option(a, i) == a[i] = MinTok /\ i + 1 <= Len(a)

\* the guard of the --no-clean branch
is_no_clean_option(a, i) == a[i] = NoCleanTok

\* the while loop over the tokens, from index i (1-based) with the locals st
RECURSIVE parse_loop(_, _, _)
parse_loop(a, i, st) ==
    IF i > Len(a) THEN st
    ELSE IF is_min_option(a, i)
         THEN parse_loop(a, i + 2, [st EXCEPT !.compat_min = a[i + 1]])
    ELSE IF is_no_clean_option(a, i)
         THEN parse_loop(a, i + 1, [st EXCEPT !.no_clean = TRUE])
    ELSE parse_loop(a, i + 1, [st EXCEPT !.positional = Append(@, a[i])])

\* faulty variant: the last positional is taken instead of the first
resolve_root_last(positional, f) ==
    IF positional # <<>> THEN abspath(positional[Len(positional)])
    ELSE IF isfile(f, join(ScriptParent, DontTouchName)) THEN ScriptParent
    ELSE Cwd

\* the root: the first positional, else the script's parent if it holds a
\* dont_touch.txt, else the working directory
resolve_root(positional, f) ==
    IF positional # <<>> THEN abspath(positional[1])
    ELSE IF isfile(f, join(ScriptParent, DontTouchName)) THEN ScriptParent
    ELSE Cwd

----------------------------------------------------------------------------
(* The two re.sub calls *)

RECURSIVE skip_ws(_, _)
skip_ws(s, i) == IF i <= Len(s) /\ s[i] \in Whitespace THEN skip_ws(s, i + 1) ELSE i

RECURSIVE skip_nonws(_, _)
skip_nonws(s, i) == IF i <= Len(s) /\ s[i] \notin Whitespace THEN skip_nonws(s, i + 1) ELSE i

RECURSIVE find_quote(_, _)
find_quote(s, i) == IF i <= Len(s) /\ s[i] # "\"" THEN find_quote(s, i + 1) ELSE i

\* (branch\s*=\s*)\S+ matched at i: the group's end and the match's end, 0 if none
branch_match(s, i) ==
    LET j == skip_ws(s, i + 1)
        k == IF j <= Len(s) /\ s[j] = "=" THEN skip_ws(s, j + 1) ELSE Len(s) + 1
    IN  IF s[i] = "branch" /\ k <= Len(s)
        THEN [grp |-> k - 1, end |-> skip_nonws(s, k) - 1]
        ELSE [grp |-> 0, end |-> 0]

\* re.sub(r'(branch\s*=\s*)\S+', r'\g<1>master', content)
RECURSIVE sub_branch(_, _)
sub_branch(s, i) ==
    IF i > Len(s) THEN <<>>
    ELSE LET m == branch_match(s, i)
         IN  IF m.end > 0
             THEN SubSeq(s, i, m.grp) \o <<"master">> \o sub_branch(s, m.end + 1)
             ELSE <<s[i]>> \o sub_branch(s, i + 1)

CompatKey == "compatibility_minimum"

\* compatibility_minimum\s*=\s*"[^"]*" matched at i: the match's end, 0 if none
compat_match(s, i) ==
    LET j == skip_ws(s, i + 1)
        k == IF j <= Len(s) /\ s[j] = "=" THEN skip_ws(s, j + 1) ELSE Len(s) + 1
        q == IF k <= Len(s) /\ s[k] = "\"" THEN find_quote(s, k + 1) ELSE Len(s) + 1
    IN  IF s[i] = CompatKey /\ q <= Len(s) THEN q ELSE 0

\* the replacement template f'compatibility_minimum = "{compat_min}"'
compat_template(v) == <<CompatKey, " ", "=", " ", "\"">> \o v \o <<"\"">>

\* re.sub's expansion of a replacement template: \n is a newline, \\ a
\* backslash, and an escape of a non-alphanumeric character is left alone
\* (escapes of letters and digits are not among the inputs drawn here)
RECURSIVE expand_template(_)
expand_template(t) ==
    IF t = <<>> THEN <<>>
    ELSE IF Head(t) = "\\" /\ Len(t) >= 2
         THEN (CASE t[2] = "n" -> <<"\n">>
                 [] t[2] = "\\" -> <<"\\">>
                 [] OTHER -> <<"\\", t[2]>>) \o expand_template(Tail(Tail(t)))
    ELSE <<Head(t)>> \o expand_template(Tail(t))

\* re.sub(r'compatibility_minimum\s*=\s*"[^"]*"', repl, content), repl expanded
RECURSIVE sub_compat(_, _, _)
sub_compat(s, i, repl) ==
    IF i > Len(s) THEN <<>>
    ELSE LET e == compat_match(s, i)
         IN  IF e > 0 THEN repl \o sub_compat(s, e + 1, repl)
             ELSE <<s[i]>> \o sub_compat(s, i + 1, repl)

----------------------------------------------------------------------------
(* The trace, and how a step ends *)

S_ensure == "ensure_submodule_initialized"
S_fetch == "fetch_and_checkout_master"
S_gitmodules == "update_gitmodules"
S_sync == "sync_submodule"
S_dont_touch == "update_dont_touch"
S_gdextension == "update_gdextension"
S_clean == "clean_build"

Call(step) == [op |-> "call", step |-> step, cmd |-> "", path |-> <<>>, existed |-> FALSE]
Cmd(step, c) == [op |-> "cmd", step |-> step, cmd |-> c, path |-> <<>>, existed |-> FALSE]
Read(step, p) == [op |-> "read", step |-> step, cmd |-> "", path |-> p, existed |-> TRUE]
Search(step, p) == [op |-> "search", step |-> step, cmd |-> "", path |-> p, existed |-> FALSE]
Write(step, p) == [op |-> "write", step |-> step, cmd |-> "", path |-> p, existed |-> isfile(fs, p)]

submodule_path == join(plugin_root, GodotCpp)
gitmodules_path == join(plugin_root, GitmodulesName)
dont_touch_path == join(plugin_root, DontTouchName)

Running == pc \notin {"done", "exit"}

\* sys.exit(code)
sys_exit(code) == pc' = "exit" /\ exit_code' = code

\* an exception nobody catches: a traceback, and the interpreter exits with 1
uncaught_exception == pc' = "exit" /\ exit_code' = 1

\* faulty variant: a warned failure ends the run like a fatal one
warn_and_exit(tag, next) ==
    warned' = warned \cup {tag} /\ sys_exit(1)

\* a non-fatal failure: print a warning and go on with the next step
warn_and_continue(tag, next) ==
    warned' = warned \cup {tag} /\ pc' = next /\ UNCHANGED exit_code

\* what subprocess.run can do: the command runs and returns zero, runs and
\* returns non-zero, or cannot be started (OSError); with a cwd that is not a
\* directory it cannot be started
Outcomes(cwd) == IF isdir(fs, cwd) THEN {"ok", "fail", "oserror"} ELSE {"oserror"}

----------------------------------------------------------------------------
(* main: lines 223-231 *)

parse_args ==
    /\ pc = "start"
    /\ LET r == parse_loop(args, 1, ParseStart)
       IN  /\ plugin_root' = resolve_root(r.positional, fs)
           /\ compat_min' = r.compat_min
           /\ no_clean' = r.no_clean
    /\ pc' = "check_root"
    /\ UNCHANGED <<args, fs, fs0, plugin_name, exit_code, trace, failed, oserror,
                   interrupted, warned>>

check_root ==
    /\ pc = "check_root"
    /\ \/ ~isdir(fs, plugin_root) /\ sys_exit(1)
       \/ isdir(fs, plugin_root) /\ pc' = S_ensure /\ UNCHANGED exit_code
    /\ UNCHANGED <<args, fs, fs0, plugin_root, compat_min, no_clean, plugin_name, trace,
                   failed, oserror, interrupted, warned>>

----------------------------------------------------------------------------
(* ensure_submodule_initialized *)

\* faulty variant: only a .git directory counts, not a .git file
has_git_marker_dir_only(f, sub) == isdir(f, join(sub, GitMarker))

has_git_marker(f, sub) ==
    isdir(f, join(sub, GitMarker)) \/ isfile(f, join(sub, GitMarker))

\* what a successful "git submodule update --init --recursive" may leave: the
\* checkout with its .git marker, or nothing when no submodule is registered
after_init(f, sub) ==
    {f, [q \in DOMAIN f \cup {sub, join(sub, GitMarker)} |->
            IF q \in DOMAIN f THEN f[q]
            ELSE IF q = sub THEN DirNode ELSE FileNode(<<>>)]}

ensure_submodule_initialized ==
    /\ pc = S_ensure
    /\ \/ /\ has_git_marker(fs, submodule_path)
          /\ trace' = Append(trace, Call(S_ensure))
          /\ pc' = "fetch"
          /\ UNCHANGED <<fs, exit_code, failed, oserror>>
       \/ /\ ~has_git_marker(fs, submodule_path)
          /\ trace' = trace \o <<Call(S_ensure), Cmd(S_ensure, "submodule update --init")>>
          /\ \E rc \in Outcomes(plugin_root) :
                \/ /\ rc = "ok"
                   /\ fs' \in after_init(fs, submodule_path)
                   /\ pc' = "fetch"
                   /\ UNCHANGED <<exit_code, failed, oserror>>
                \/ /\ rc = "fail"
                   /\ failed' = failed \cup {"init"}
                   /\ sys_exit(1)
                   /\ UNCHANGED <<fs, oserror>>
                \/ /\ rc = "oserror"
                   /\ oserror' = TRUE
                   /\ uncaught_exception
                   /\ UNCHANGED <<fs, failed>>
    /\ UNCHANGED <<args, fs0, plugin_root, compat_min, no_clean, plugin_name,
                   interrupted, warned>>

----------------------------------------------------------------------------
(* fetch_and_checkout_master: one action per git command *)

fetch_all ==
    /\ pc = "fetch"
    /\ trace' = trace \o <<Call(S_fetch), Cmd(S_fetch, "fetch")>>
    /\ \E rc \in Outcomes(submodule_path) :
          \/ /\ rc = "ok"
             /\ pc' = "checkout"
             /\ UNCHANGED <<exit_code, failed, oserror, warned>>
          \/ /\ rc = "fail"
             /\ failed' = failed \cup {"fetch"}
             /\ warn_and_continue("fetch", "checkout")
             /\ UNCHANGED oserror
          \/ /\ rc = "oserror"
             /\ oserror' = TRUE
             /\ uncaught_exception
             /\ UNCHANGED <<failed, warned>>
    /\ UNCHANGED <<args, fs, fs0, plugin_root, compat_min, no_clean, plugin_name,
                   interrupted>>

checkout_master ==
    /\ pc = "checkout"
    /\ trace' = Append(trace, Cmd(S_fetch, "checkout"))
    /\ \E rc \in Outcomes(submodule_path) :
          \/ /\ rc = "ok"
             /\ pc' = "pull"
             /\ UNCHANGED <<exit_code, failed, oserror>>
          \/ /\ rc = "fail"
             /\ failed' = failed \cup {"checkout"}
             /\ sys_exit(1)
             /\ UNCHANGED oserror
          \/ /\ rc = "oserror"
             /\ oserror' = TRUE
             /\ uncaught_exception
             /\ UNCHANGED failed
    /\ UNCHANGED <<args, fs, fs0, plugin_root, compat_min, no_clean, plugin_name,
                   interrupted, warned>>

pull ==
    /\ pc = "pull"
    /\ trace' = Append(trace, Cmd(S_fetch, "pull"))
    /\ \E rc \in Outcomes(submodule_path) :
          \/ /\ rc = "ok"
             /\ pc' = "log"
             /\ UNCHANGED <<exit_code, failed, oserror, warned>>
          \/ /\ rc = "fail"
             /\ failed' = failed \cup {"pull"}
             /\ warn_and_continue("pull", "log")
             /\ UNCHANGED oserror
          \/ /\ rc = "oserror"
             /\ oserror' = TRUE
             /\ uncaught_exception
             /\ UNCHANGED <<failed, warned>>
    /\ UNCHANGED <<args, fs, fs0, plugin_root, compat_min, no_clean, plugin_name,
                   interrupted>>

\* git log --oneline -1: its status is not looked at
log_commit ==
    /\ pc = "log"
    /\ trace' = Append(trace, Cmd(S_fetch, "log"))
    /\ \E rc \in Outcomes(submodule_path) :
          \/ /\ rc \in {"ok", "fail"}
             /\ pc' = S_gitmodules
             /\ UNCHANGED <<exit_code, oserror>>
          \/ /\ rc = "oserror"
             /\ oserror' = TRUE
             /\ uncaught_exception
    /\ UNCHANGED <<args, fs, fs0, plugin_root, compat_min, no_clean, plugin_name,
                   failed, interrupted, warned>>

----------------------------------------------------------------------------
(* update_gitmodules, sync_submodule *)

update_gitmodules ==
    /\ pc = S_gitmodules
    /\ \/ /\ ~isfile(fs, gitmodules_path)
          /\ trace' = Append(trace, Call(S_gitmodules))
          /\ warned' = warned \cup {"gitmodules"}
          /\ UNCHANGED fs
       \/ /\ isfile(fs, gitmodules_path)
          /\ trace' = trace \o <<Call(S_gitmodules), Read(S_gitmodules, gitmodules_path),
                                 Write(S_gitmodules, gitmodules_path)>>
          /\ fs' = write_file(fs, gitmodules_path, sub_branch(fs[gitmodules_path].data, 1))
          /\ UNCHANGED warned
    /\ pc' = S_sync
    /\ UNCHANGED <<args, fs0, plugin_root, compat_min, no_clean, plugin_name, exit_code,
                   failed, oserror, interrupted>>

sync_submodule ==
    /\ pc = S_sync
    /\ trace' = trace \o <<Call(S_sync), Cmd(S_sync, "submodule sync")>>
    /\ \E rc \in Outcomes(plugin_root) :
          \/ /\ rc = "ok"
             /\ pc' = S_dont_touch
             /\ UNCHANGED <<exit_code, failed, oserror, warned>>
          \/ /\ rc = "fail"
             /\ failed' = failed \cup {"sync"}
             /\ warn_and_continue("sync", S_dont_touch)
             /\ UNCHANGED oserror
          \/ /\ rc = "oserror"
             /\ oserror' = TRUE
             /\ uncaught_exception
             /\ UNCHANGED <<failed, warned>>
    /\ UNCHANGED <<args, fs, fs0, plugin_root, compat_min, no_clean, plugin_name,
                   interrupted>>

----------------------------------------------------------------------------
(* update_dont_touch, and main's lines 242-246 *)

\* main passes new_version="4.6"
NewVersion == <<"4.6">>

\* faulty variant: the short file's name is lower-cased like the long file's
short_result_lower(lines) == IF lines # <<>> THEN Some(lower(strip(lines[1]))) ELSE None

\* the return value when the file has fewer than two lines
short_result(lines) == IF lines # <<>> THEN Some(strip(lines[1])) ELSE None

\* lines[1] = new_version + "\n" (Python's index 1 is the second line)
set_version_line(lines, new_version) == [lines EXCEPT ![2] = Append(new_version, "\n")]

\* the plugin name returned after the update
name_result(lines) == Some(lower(strip(lines[1])))

\* faulty variant: the flag is read the wrong way round
after_manifest_inverted == IF no_clean THEN S_clean ELSE "finish"

\* where main goes after the manifest step, or instead of it
after_manifest == IF ~no_clean THEN S_clean ELSE "finish"

\* faulty variant: the manifest step runs without looking at plugin_name
after_dont_touch_unguarded(name) == S_gdextension

\* main: if plugin_name: update_gdextension(...)
after_dont_touch(name) == IF truthy(name) THEN S_gdextension ELSE after_manifest

update_dont_touch ==
    /\ pc = S_dont_touch
    /\ \/ /\ ~isfile(fs, dont_touch_path)
          /\ trace' = Append(trace, Call(S_dont_touch))
          /\ warned' = warned \cup {"dont_touch"}
          /\ plugin_name' = None
          /\ UNCHANGED fs
       \/ /\ isfile(fs, dont_touch_path)
          /\ LET lines == readlines(fs[dont_touch_path].data)
             IN  \/ /\ Len(lines) < 2
                    /\ trace' = trace \o <<Call(S_dont_touch), Read(S_dont_touch, dont_touch_path)>>
                    /\ warned' = warned \cup {"short"}
                    /\ plugin_name' = short_result(lines)
                    /\ UNCHANGED fs
                 \/ /\ Len(lines) >= 2
                    /\ trace' = trace \o <<Call(S_dont_touch), Read(S_dont_touch, dont_touch_path),
                                           Write(S_dont_touch, dont_touch_path)>>
                    /\ fs' = write_file(fs, dont_touch_path,
                                        writelines(set_version_line(lines, NewVersion)))
                    /\ plugin_name' = name_result(lines)
                    /\ UNCHANGED warned
    /\ pc' = after_dont_touch(plugin_name')
    /\ UNCHANGED <<args, fs0, plugin_root, compat_min, no_clean, exit_code, failed,
                   oserror, interrupted>>

----------------------------------------------------------------------------
(* update_gdextension *)

\* the two standard locations, in the order they are tried
candidates(root, name) ==
    << join(join(join(root, TestProject), name), gdextension_name(name)),
       join(join(root, name), gdextension_name(name)) >>

\* the first candidate that is a file
RECURSIVE first_file(_, _)
first_file(f, cs) ==
    IF cs = <<>> THEN None
    ELSE IF isfile(f, Head(cs)) THEN Some(Head(cs))
    ELSE first_file(f, Tail(cs))

children(f, d) == {p \in DOMAIN f : Len(p) = Len(d) + 1 /\ IsPrefix(d, p)}

\* the loop body's skip test: if "godot-cpp" in root: continue
walk_skips(d) == path_contains_godot_cpp(d)

\* the files os.walk(d) can meet first that end with ".gdextension": the walk is
\* top-down, a directory's own files come before its subdirectories', and the
\* order of the entries of one directory is the operating system's
RECURSIVE walk_first(_, _)
walk_first(f, d) ==
    LET here == {p \in children(f, d) : ~f[p].dir /\ endswith_gdextension(p[Len(p)])}
    IN  IF ~walk_skips(d) /\ here # {} THEN here
        ELSE UNION {walk_first(f, c) : c \in {p \in children(f, d) : f[p].dir}}

\* faulty variant: the result is written to <root>/<id>.gdextension, not to the
\* file that was read
rewrite_manifest_elsewhere(path) ==
    LET target == join(plugin_root, gdextension_name(plugin_name.v))
    IN  /\ trace' = trace \o <<Call(S_gdextension), Search(S_gdextension, plugin_root),
                               Read(S_gdextension, path), Write(S_gdextension, target)>>
        /\ fs' = write_file(fs, target,
                    sub_compat(fs[path].data, 1, expand_template(compat_template(compat_min))))
        /\ UNCHANGED warned

\* the read, the substitution and the write
rewrite_manifest(path) ==
    /\ trace' = trace \o <<Call(S_gdextension), Search(S_gdextension, plugin_root),
                           Read(S_gdextension, path), Write(S_gdextension, path)>>
    /\ fs' = write_file(fs, path,
                sub_compat(fs[path].data, 1, expand_template(compat_template(compat_min))))
    /\ UNCHANGED warned

update_gdextension ==
    /\ pc = S_gdextension
    /\ LET c == first_file(fs, candidates(plugin_root, plugin_name.v))
           w == walk_first(fs, plugin_root)
       IN  \/ c.ok /\ rewrite_manifest(c.v)
           \/ ~c.ok /\ \E g \in w : rewrite_manifest(g)
           \/ /\ ~c.ok /\ w = {}
              /\ trace' = trace \o <<Call(S_gdextension), Search(S_gdextension, plugin_root)>>
              /\ warned' = warned \cup {"gdextension"}
              /\ UNCHANGED fs
    /\ pc' = after_manifest
    /\ UNCHANGED <<args, fs0, plugin_root, compat_min, no_clean, plugin_name, exit_code,
                   failed, oserror, interrupted>>

----------------------------------------------------------------------------
(* clean_build, the end of main, and the KeyboardInterrupt handler *)

clean_build ==
    /\ pc = S_clean
    /\ trace' = trace \o <<Call(S_clean), Cmd(S_clean, "scons -c")>>
    /\ \E rc \in Outcomes(plugin_root) :
          \/ /\ rc = "ok"
             /\ pc' = "finish"
             /\ UNCHANGED <<exit_code, failed, oserror, warned>>
          \/ /\ rc = "fail"
             /\ failed' = failed \cup {"clean"}
             /\ warn_and_continue("clean", "finish")
             /\ UNCHANGED oserror
          \/ /\ rc = "oserror"
             /\ oserror' = TRUE
             /\ uncaught_exception
             /\ UNCHANGED <<failed, warned>>
    /\ UNCHANGED <<args, fs, fs0, plugin_root, compat_min, no_clean, plugin_name,
                   interrupted>>

\* main returns: the process ends with status 0
finish ==
    /\ pc = "finish"
    /\ pc' = "done"
    /\ exit_code' = 0
    /\ UNCHANGED <<args, fs, fs0, plugin_root, compat_min, no_clean, plugin_name, trace,
                   failed, oserror, interrupted, warned>>

\* except KeyboardInterrupt: print("Cancelled."); sys.exit(0)
keyboard_interrupt ==
    /\ Running
    /\ interrupted' = TRUE
    /\ sys_exit(0)
    /\ UNCHANGED <<args, fs, fs0, plugin_root, compat_min, no_clean, plugin_name, trace,
                   failed, oserror, warned>>

----------------------------------------------------------------------------
(* The inputs: argument lists and project trees *)

ProjectDir == <<"p">>

ArgTokens == {MinTok, NoCleanTok, ProjectDir, <<"4.7">>, <<"\\", "n">>}

SubStates == {"absent", "nogit", "git"}

GitmodulesContents ==
    {None, Some(<<"[submodule]", "\n", "\t", "branch", " ", "=", " ", "4.4", "\n">>)}

ManifestText == <<"[configuration]", "\n", CompatKey, " ", "=", " ", "\"", "4.5", "\"", "\n">>

\* manifest files, by their path below the root
AtTestProject == <<TestProject, <<"a">>, <<"a", GdExt>>>>
AtPluginDir == <<<<"a">>, <<"a", GdExt>>>>
AtSrc == <<<<"src">>, <<"b", GdExt>>>>
AtSubmodule == <<GodotCpp, <<"t", GdExt>>>>
AtSibling == <<<<"godot-cpp", "-x">>, <<"c", GdExt>>>>

\* the nodes of a project at root P
Project(P, sub, gm, dt, mans) ==
    {<<Cwd, DirNode>>, <<ScriptParent, DirNode>>, <<P, DirNode>>}
    \cup (IF sub = "absent" THEN {} ELSE {<<join(P, GodotCpp), DirNode>>})
    \cup (IF sub = "git" THEN {<<join(join(P, GodotCpp), GitMarker), FileNode(<<>>)>>} ELSE {})
    \cup (IF gm.ok THEN {<<join(P, GitmodulesName), FileNode(gm.v)>>} ELSE {})
    \cup (IF dt.ok THEN {<<join(P, DontTouchName), FileNode(dt.v)>>} ELSE {})
    \cup {<<P \o m, FileNode(ManifestText)>> : m \in mans}
    \cup UNION {{<<P \o SubSeq(m, 1, k), DirNode>> : k \in 1..(Len(m) - 1)} : m \in mans}


MainMarkers ==
    {None, Some(<<"a">>), Some(<<"A", "\n", "4.5", "\n">>), Some(<<" ", "\n", "4.5">>)}

MainManifests == {{}, {AtPluginDir}, {AtTestProject, AtPluginDir}, {AtSrc}}

ProjectRoots == {abspath(ProjectDir), ScriptParent}

\* the state of the variables a starting process has not set yet
Fresh ==
    /\ plugin_root = <<>>
    /\ compat_min = DefaultCompat
    /\ no_clean = FALSE
    /\ plugin_name = None
    /\ exit_code = -1
    /\ trace = <<>>
    /\ failed = {}
    /\ oserror = FALSE
    /\ interrupted = FALSE
    /\ warned = {}

Init ==
    /\ args \in SeqsUpTo(ArgTokens, MaxArgs)
    /\ \E P \in ProjectRoots, sub \in SubStates, gm \in GitmodulesContents,
          dt \in MainMarkers, mans \in MainManifests :
          fs = MkFs(Project(P, sub, gm, dt, mans))
    /\ fs0 = fs
    /\ pc = "start"
    /\ Fresh

Next ==
    \/ parse_args
    \/ check_root
    \/ ensure_submodule_initialized
    \/ fetch_all
    \/ checkout_master
    \/ pull
    \/ log_commit
    \/ update_gitmodules
    \/ sync_submodule
    \/ update_dont_touch
    \/ update_gdextension
    \/ clean_build
    \/ finish
    \/ keyboard_interrupt

Spec == Init /\ [][Next]_vars


----------------------------------------------------------------------------
(* The same program on other inputs: long argument lists, every short      *)
(* dont_touch.txt, and every placement of the manifest files               *)

InitArgs ==
    /\ args \in SeqsUpTo(ArgTokens, MaxArgv)
    /\ \E P \in ProjectRoots, sub \in SubStates, gm \in GitmodulesContents,
          dt \in {None, Some(<<"a">>)} :
          fs = MkFs(Project(P, sub, gm, dt, {}))
    /\ fs0 = fs
    /\ pc = "start"
    /\ Fresh

SpecArgs == InitArgs /\ [][Next]_vars

MarkerAlphabet == {"A", " ", "\n"}

InitMarker ==
    /\ args \in {<<>>, <<ProjectDir>>}
    /\ \E P \in ProjectRoots, sub \in SubStates, gm \in GitmodulesContents,
          dt \in {None} \cup {Some(d) : d \in SeqsUpTo(MarkerAlphabet, MaxMarkerLen)} :
          fs = MkFs(Project(P, sub, gm, dt, {AtPluginDir}))
    /\ fs0 = fs
    /\ pc = "start"
    /\ Fresh

SpecMarker == InitMarker /\ [][Next]_vars

\* a project directory whose own name contains "godot-cpp"
GodotCppProjectDir == <<"godot-cpp", "-plugin">>

AllManifests == {AtTestProject, AtPluginDir, AtSrc, AtSubmodule, AtSibling}

InitWalk ==
    /\ args \in {<<ProjectDir>>, <<GodotCppProjectDir>>}
    /\ \E P \in {abspath(ProjectDir), abspath(GodotCppProjectDir)},
          dt \in {Some(<<"a", "\n", "4.5", "\n">>), Some(<<"B", "\n", "4.5", "\n">>)},
          mans \in SUBSET AllManifests, sub \in SubStates, gm \in GitmodulesContents :
          fs = MkFs(Project(P, sub, gm, dt, mans))
    /\ fs0 = fs
    /\ pc = "start"
    /\ Fresh

SpecWalk == InitWalk /\ [][Next]_vars


----------------------------------------------------------------------------
(* Vocabulary of the properties *)

Ended == pc \in {"done", "exit"}
\* parse_args has returned (a root is never the empty path)
Parsed == plugin_root # <<>>

Events(op) == SelectSeq(trace, LAMBDA e : e.op = op)
CmdNames == [i \in 1..Len(Events("cmd")) |-> Events("cmd")[i].cmd]
CallNames == [i \in 1..Len(Events("call")) |-> Events("call")[i].step]
Invoked(c) == \E i \in 1..Len(trace) : trace[i].op = "cmd" /\ trace[i].cmd = c
Called(step) == \E i \in 1..Len(trace) : trace[i].op = "call" /\ trace[i].step = step
WriteIdx == {i \in 1..Len(trace) : trace[i].op = "write"}

\* the three fatal conditions
RootInvalid == Parsed /\ ~isdir(fs0, plugin_root)
FatalCondition == RootInvalid \/ "init" \in failed \/ "checkout" \in failed

\* a run that ended, in which nothing went wrong but non-zero statuses of the
\* commands whose failure is only warned about, and missing files
OnlyWarnings == Ended /\ ~FatalCondition /\ ~oserror /\ ~interrupted

\* dont_touch.txt, as it was at the start, has a first line that is not blank
MarkerData == fs0[dont_touch_path].data
HasIdentifier ==
    /\ isfile(fs0, dont_touch_path)
    /\ \E i \in 1..Len(MarkerData) :
          /\ MarkerData[i] \notin Whitespace
          /\ \A j \in 1..(i - 1) : MarkerData[j] # "\n"

Filter(seq, S) == SelectSeq(seq, LAMBDA x : x \in S)

AllSteps == <<S_ensure, S_fetch, S_gitmodules, S_sync, S_dont_touch, S_gdextension, S_clean>>

----------------------------------------------------------------------------
(* C1: a run ends with exit code 1 exactly when the root is not a          *)
(* directory, the submodule initialisation returns non-zero or the branch  *)
(* reset fails; after it nothing more is invoked or written; every other   *)
(* run completes with exit code 0.  (Interrupted runs are left aside.)     *)
C1_ExitOneIffFatal ==
    (Ended /\ ~interrupted) =>
        /\ exit_code = 1 <=> FatalCondition
        /\ FatalCondition =>
              /\ WriteIdx = {}
              /\ RootInvalid => trace = <<>>
              /\ "init" \in failed => CmdNames = <<"submodule update --init">>
              /\ "checkout" \in failed => CmdNames[Len(CmdNames)] = "checkout"
        /\ ~FatalCondition => pc = "done" /\ exit_code = 0

----------------------------------------------------------------------------
(* C2, as stated: when only non-fatal failures occur, every step of the    *)
(* pipeline is attempted, in order, and the run exits with code 0.         *)
C2_EveryStepAttempted ==
    OnlyWarnings =>
        /\ exit_code = 0
        /\ CallNames = Filter(AllSteps, {x \in Range(AllSteps) : x # S_clean \/ ~no_clean})

(* C2, amended: when only non-fatal failures occur, each prints its        *)
(* warning, the run completes with exit code 0, and the steps attempted    *)
(* are, in order, all of the pipeline except the manifest step when        *)
(* dont_touch.txt gave no identifier and the clean step under --no-clean.  *)
C2_WarningsNeverStop ==
    OnlyWarnings =>
        /\ pc = "done" /\ exit_code = 0
        /\ CallNames = Filter(AllSteps, {x \in Range(AllSteps) :
                                    /\ x = S_gdextension => HasIdentifier
                                    /\ x = S_clean => ~no_clean})
        /\ failed \subseteq warned
        /\ ~isfile(fs0, gitmodules_path) => "gitmodules" \in warned
        /\ ~isfile(fs0, dont_touch_path) => "dont_touch" \in warned
        /\ "gdextension" \in warned => \A i \in WriteIdx : trace[i].step # S_gdextension

C2_Witness ==
    /\ pc = "done" /\ exit_code = 0
    /\ {"fetch", "pull", "clean"} \subseteq failed
    /\ {"gitmodules", "gdextension"} \subseteq warned


----------------------------------------------------------------------------
(* C3, as stated: if --no-clean appears in the argument list, scons -c is  *)
(* never invoked; without the flag, a completed run invokes it once, after *)
(* every file edit.                                                        *)
CleanOnceAfterEdits ==
    (pc = "done" /\ ~no_clean) =>
        /\ Len(Filter(CmdNames, {"scons -c"})) = 1
        /\ trace[Len(trace)].cmd = "scons -c"

C3_NoCleanInArgs ==
    /\ NoCleanTok \in Range(args) => ~Invoked("scons -c")
    /\ CleanOnceAfterEdits

(* C3, amended: if the clean-skip flag is set, scons -c is never invoked;  *)
(* a --no-clean token sets the flag unless the token before it is --min    *)
(* (which may take it as its value), and nothing else sets it; without the *)
(* flag, a completed run invokes scons -c once, after every file edit.     *)
C3_NoCleanFlag ==
    /\ no_clean => ~Invoked("scons -c")
    /\ Parsed =>
          /\ no_clean => NoCleanTok \in Range(args)
          /\ \A i \in 1..Len(args) :
                (args[i] = NoCleanTok /\ (i = 1 \/ args[i - 1] # MinTok)) => no_clean
    /\ CleanOnceAfterEdits

C3_Witness ==
    /\ pc = "done" /\ no_clean /\ WriteIdx # {}
    /\ NoCleanTok \in Range(args)



----------------------------------------------------------------------------
(* C4, as stated: --min takes the token after it, --no-clean sets the      *)
(* flag, the first other token is the root, the defaults are "4.6" and     *)
(* off, and --min or --no-clean is never taken as the root path.           *)
Defaults ==
    /\ MinTok \notin Range(args) => compat_min = DefaultCompat
    /\ NoCleanTok \notin Range(args) => ~no_clean

C4_OptionNeverRoot ==
    Parsed =>
        /\ Defaults
        /\ plugin_root \notin {abspath(MinTok), abspath(NoCleanTok)}

\* rho gives each token its role in the left-to-right scan: a --min with a
\* token after it is an option and the next token its value, a --no-clean is
\* the flag, anything else (a last --min too) is positional
IsScan(rho) ==
    \A i \in 1..Len(args) :
        LET value == i > 1 /\ rho[i - 1] = "min"
        IN  /\ rho[i] = "val" <=> value
            /\ rho[i] = "min" <=> (~value /\ args[i] = MinTok /\ i < Len(args))
            /\ rho[i] = "flag" <=> (~value /\ args[i] = NoCleanTok)

ScanResult(rho) ==
    LET mins == {i \in 1..Len(args) : rho[i] = "min"}
        poss == {i \in 1..Len(args) : rho[i] = "pos"}
        Max(S) == CHOOSE x \in S : \A y \in S : y <= x
        Min(S) == CHOOSE x \in S : \A y \in S : x <= y
    IN  /\ compat_min = IF mins = {} THEN DefaultCompat ELSE args[Max(mins) + 1]
        /\ no_clean <=> \E i \in 1..Len(args) : rho[i] = "flag"
        /\ poss # {} => plugin_root = abspath(args[Min(poss)])
        /\ poss = {} => plugin_root =
              IF isfile(fs0, join(ScriptParent, DontTouchName)) THEN ScriptParent ELSE Cwd

(* C4, amended: as stated, except that a --min which is the last token     *)
(* takes no value and is a positional path (so it can become the root), and *)
(* a --no-clean right after a --min option is that option's value, not the  *)
(* flag.  --no-clean is never taken as the root path.                       *)
C4_ArgumentResolver ==
    Parsed =>
        /\ Defaults
        /\ plugin_root # abspath(NoCleanTok)
        /\ plugin_root = abspath(MinTok) => args[Len(args)] = MinTok
        /\ \E rho \in [1..Len(args) -> {"min", "val", "flag", "pos"}] :
              IsScan(rho) /\ ScanResult(rho)

C4_Witness ==
    /\ Parsed
    /\ args = <<MinTok, NoCleanTok, MinTok>>
    /\ compat_min = NoCleanTok /\ ~no_clean /\ plugin_root = abspath(MinTok)


----------------------------------------------------------------------------
(* C5: when the root has no dont_touch.txt, the version-marker step writes *)
(* and creates no file and returns no identifier, and the manifest step is *)
(* skipped: no .gdextension file is searched for, read or written.         *)
C5_NoMarkerNoManifest ==
    (Parsed /\ ~isfile(fs0, dont_touch_path)) =>
        /\ plugin_name = None
        /\ ~isfile(fs, dont_touch_path)
        /\ \A i \in 1..Len(trace) :
              /\ trace[i].step # S_gdextension
              /\ trace[i].step = S_dont_touch => trace[i].op = "call"
        /\ \A p \in DOMAIN fs : endswith_gdextension(p[Len(p)]) => fs[p] = fs0[p]

C5_Witness ==
    /\ pc = "done"
    /\ ~isfile(fs0, dont_touch_path)
    /\ Called(S_dont_touch)
    /\ \E p \in DOMAIN fs0 : endswith_gdextension(p[Len(p)])

----------------------------------------------------------------------------
(* C6, as stated: for a dont_touch.txt of exactly one line the file is     *)
(* left as it is and the identifier returned is the line's content.        *)
OneLine ==
    /\ isfile(fs0, dont_touch_path)
    /\ MarkerData # <<>>
    /\ \A i \in 1..(Len(MarkerData) - 1) : MarkerData[i] # "\n"

\* the line without its terminator
LineContent ==
    IF MarkerData[Len(MarkerData)] = "\n"
    THEN SubSeq(MarkerData, 1, Len(MarkerData) - 1) ELSE MarkerData

MarkerUntouched ==
    /\ fs[dont_touch_path] = fs0[dont_touch_path]
    /\ \A i \in WriteIdx : trace[i].step # S_dont_touch

C6_ReturnsLineVerbatim ==
    (Called(S_dont_touch) /\ OneLine) =>
        /\ MarkerUntouched
        /\ plugin_name = Some(LineContent)

\* t is s without its leading and trailing whitespace, case kept
IsTrimOf(t, s) ==
    \E a \in 0..Len(s), b \in 0..Len(s) :
        /\ a + b <= Len(s)
        /\ t = SubSeq(s, a + 1, Len(s) - b)
        /\ \A i \in 1..a : s[i] \in Whitespace
        /\ \A i \in (Len(s) - b + 1)..Len(s) : s[i] \in Whitespace
        /\ t # <<>> => (t[1] \notin Whitespace /\ t[Len(t)] \notin Whitespace)

(* C6, amended: for a dont_touch.txt of exactly one line the file is left  *)
(* as it is, and the identifier returned is that line with its leading and *)
(* trailing whitespace removed (and not lower-cased).                      *)
C6_ReturnsLineTrimmed ==
    (Called(S_dont_touch) /\ OneLine) =>
        /\ MarkerUntouched
        /\ plugin_name.ok
        /\ IsTrimOf(plugin_name.v, MarkerData)

C6_Witness ==
    /\ Called(S_dont_touch)
    /\ OneLine
    /\ MarkerData = <<" ", "A", " ", "\n">>
    /\ plugin_name = Some(<<"A">>)
    /\ pc = "done"


----------------------------------------------------------------------------
(* C7: the manifest rewritten is test_project/<id>/<id>.gdextension if it  *)
(* exists, else <id>/<id>.gdextension if it exists, else a .gdextension    *)
(* file found by a walk that skips exactly the directories named           *)
(* godot-cpp; so when a manifest exists under the root outside every       *)
(* directory named godot-cpp, exactly one manifest is rewritten.           *)
Manifests0 ==
    {p \in DOMAIN fs0 : /\ ~fs0[p].dir
                        /\ Len(p) > Len(plugin_root) /\ IsPrefix(plugin_root, p)
                        /\ endswith_gdextension(p[Len(p)])}

OutsideSubmodule(p) == \A k \in (Len(plugin_root) + 1)..(Len(p) - 1) : p[k] # GodotCpp

ManifestsWritten == {trace[i].path : i \in {j \in WriteIdx : trace[j].step = S_gdextension}}

C7_ManifestPriority ==
    Called(S_gdextension) =>
        LET c1 == candidates(plugin_root, plugin_name.v)[1]
            c2 == candidates(plugin_root, plugin_name.v)[2]
        IN  /\ isfile(fs0, c1) => ManifestsWritten = {c1}
            /\ (~isfile(fs0, c1) /\ isfile(fs0, c2)) => ManifestsWritten = {c2}
            /\ (~isfile(fs0, c1) /\ ~isfile(fs0, c2)) =>
                  ManifestsWritten \subseteq {p \in Manifests0 : OutsideSubmodule(p)}
            /\ (\E p \in Manifests0 : OutsideSubmodule(p)) => Cardinality(ManifestsWritten) = 1

----------------------------------------------------------------------------
(* C8: the tool writes at most three files, .gitmodules, dont_touch.txt    *)
(* and one .gdextension manifest, each existing before the write and read  *)
(* just before it in the same step; its own file operations create no file *)
(* and delete none, and change no other file.                              *)
C8_WritesOnlyExistingReadFiles ==
    /\ \A i \in WriteIdx :
          LET e == trace[i]
          IN  /\ e.existed /\ isfile(fs0, e.path)
              /\ \/ e.step = S_gitmodules /\ e.path = gitmodules_path
                 \/ e.step = S_dont_touch /\ e.path = dont_touch_path
                 \/ e.step = S_gdextension /\ endswith_gdextension(e.path[Len(e.path)])
              /\ i > 1 /\ trace[i - 1] = Read(e.step, e.path)
    /\ \A i \in WriteIdx, j \in WriteIdx : i # j => trace[i].step # trace[j].step
    /\ DOMAIN fs0 \subseteq DOMAIN fs
    /\ \A p \in DOMAIN fs \ DOMAIN fs0 : p \in {submodule_path, join(submodule_path, GitMarker)}
    /\ \A p \in DOMAIN fs0 : fs[p] # fs0[p] => \E i \in WriteIdx : trace[i].path = p

C8_Witness ==
    /\ pc = "done"
    /\ Cardinality(WriteIdx) = 3
    /\ \A i \in WriteIdx : fs[trace[i].path] # fs0[trace[i].path]

----------------------------------------------------------------------------
(* C9: the external commands are issued in the order submodule-init (only  *)
(* when the checkout has no .git marker, otherwise the initializer issues  *)
(* nothing), fetch, checkout -B, pull, log, submodule sync, scons -c, each  *)
(* at most once; a run that completes issued each one its guard does not   *)
(* skip; the branch reset follows a fetch that returned non-zero too, and   *)
(* pull and log are issued only after the branch reset succeeded.           *)
CommandOrder ==
    <<"submodule update --init", "fetch", "checkout", "pull", "log", "submodule sync",
      "scons -c">>

Position(c) == CHOOSE k \in 1..Len(CommandOrder) : CommandOrder[k] = c

InitialisedAtStart == join(submodule_path, GitMarker) \in DOMAIN fs0

C9_CommandsOnceInOrder ==
    /\ \A i \in 1..Len(CmdNames), j \in 1..Len(CmdNames) :
          i < j => Position(CmdNames[i]) < Position(CmdNames[j])
    /\ ~Called(S_ensure) => CmdNames = <<>>
    /\ Called(S_ensure) => (Invoked("submodule update --init") <=> ~InitialisedAtStart)
    /\ pc = "done" =>
          CmdNames = Filter(CommandOrder, {c \in Range(CommandOrder) :
                                /\ c = "submodule update --init" => ~InitialisedAtStart
                                /\ c = "scons -c" => ~no_clean})
    /\ "fetch" \in failed => (pc = "checkout" \/ Invoked("checkout") \/ interrupted)
    /\ (Invoked("pull") \/ Invoked("log")) =>
          (Invoked("checkout") /\ "checkout" \notin failed)

C9_Witness ==
    /\ pc = "done"
    /\ "fetch" \in failed
    /\ Len(CmdNames) = Len(CommandOrder)

----------------------------------------------------------------------------
(* C10: dont_touch.txt's second line is always "4.6", whatever --min says, *)
(* and the manifest's compatibility_minimum is the --min value: in a run   *)
(* with --min V, V other than "4.6", that updates both files, the marker's *)
(* line 2 reads "4.6" and the manifest reads compatibility_minimum = "V".   *)
HasKey(data) == \E i \in 1..Len(data) : compat_match(data, i) > 0

Contains(data, piece) ==
    \E k \in 0..(Len(data) - Len(piece)) : SubSeq(data, k + 1, k + Len(piece)) = piece

C10_MarkerFixedManifestMin ==
    \A p \in ManifestsWritten :
        ( /\ compat_min # DefaultCompat
          /\ HasKey(fs0[p].data)
          /\ \E i \in WriteIdx : trace[i].step = S_dont_touch ) =>
            /\ readlines(fs[dont_touch_path].data)[2] = <<"4.6", "\n">>
            /\ Contains(fs[p].data, <<CompatKey, " ", "=", " ", "\"">> \o compat_min \o <<"\"">>)

====
